---- MODULE Spec2Model ----
(***************************************************************************)
(* Model of src/vs/workbench/contrib/terminal/common/terminalEnvironment.ts *)
(*                                                                         *)
(* A JavaScript string is a sequence of one-character strings, so that     *)
(* toLowerCase, toUpperCase, split, replace, includes and the regular      *)
(* expressions of the source are computed character by character.          *)
(* A JavaScript object used as a map is a sequence of entries              *)
(* [key, value] with pairwise different keys, in insertion order (the      *)
(* order of for-in, Object.keys and Object.entries).                       *)
(***************************************************************************)
EXTENDS Integers, Sequences, FiniteSets, TLC

(***************************************************************************)
(* Characters and strings                                                  *)
(***************************************************************************)
UpperChars == <<"A","B","C","D","E","F","G","H","I","J","K","L","M",
                "N","O","P","Q","R","S","T","U","V","W","X","Y","Z">>

LowerChars == <<"a","b","c","d","e","f","g","h","i","j","k","l","m",
                "n","o","p","q","r","s","t","u","v","w","x","y","z">>

\* The line terminators of ECMAScript, which the regular expression atom '.'
\* does not match (LF and CR are the two the model's strings can hold).
LineTerminators == {"\n", "\r"}

CharToLower(c) ==
    IF \E i \in 1..26 : UpperChars[i] = c
    THEN LowerChars[CHOOSE i \in 1..26 : UpperChars[i] = c]
    ELSE c

CharToUpper(c) ==
    IF \E i \in 1..26 : LowerChars[i] = c
    THEN UpperChars[CHOOSE i \in 1..26 : LowerChars[i] = c]
    ELSE c

\* String.prototype.toLowerCase
toLowerCase(s) == [i \in 1..Len(s) |-> CharToLower(s[i])]

\* String.prototype.toUpperCase
toUpperCase(s) == [i \in 1..Len(s) |-> CharToUpper(s[i])]

\* s has t at (1-based) position i
HasAt(s, t, i) ==
    /\ i >= 1
    /\ i + Len(t) - 1 <= Len(s)
    /\ \A j \in 1..Len(t) : s[i + j - 1] = t[j]

\* String.prototype.includes
includes(s, t) == \E i \in 1..(Len(s) + 1) : HasAt(s, t, i)

\* s.search(/t$/) !== -1 for a literal t
EndsWith(s, t) == HasAt(s, t, Len(s) - Len(t) + 1)

\* String.prototype.replace with a global one-character pattern: every
\* occurrence of the character c becomes the string r.
RECURSIVE replaceAll(_, _, _)
replaceAll(s, c, r) ==
    IF s = <<>> THEN <<>>
    ELSE (IF Head(s) = c THEN r ELSE <<Head(s)>>) \o replaceAll(Tail(s), c, r)

\* String.prototype.split with a one-character separator (of a non-empty or
\* empty string: "".split("-") is [""]).
RECURSIVE split(_, _)
split(s, sep) ==
    IF \E i \in 1..Len(s) : s[i] = sep
    THEN LET i == CHOOSE i \in 1..Len(s) :
                     s[i] = sep /\ \A j \in 1..(i - 1) : s[j] # sep
         IN  <<SubSeq(s, 1, i - 1)>> \o split(SubSeq(s, i + 1, Len(s)), sep)
    ELSE <<s>>

\* Array.prototype.join with a separator string
RECURSIVE join(_, _)
join(parts, sep) ==
    IF parts = <<>> THEN <<>>
    ELSE IF Len(parts) = 1 THEN parts[1]
    ELSE parts[1] \o sep \o join(Tail(parts), sep)

(***************************************************************************)
(* Values and environments                                                 *)
(***************************************************************************)
\* string | null | undefined, as one record shape
Str(s) == [kind |-> "string", str |-> s]

Null == [kind |-> "null", str |-> <<>>]

Undefined == [kind |-> "undefined", str |-> <<>>]

IsStr(v) == v.kind = "string"

Entry(k, v) == [key |-> k, value |-> v]

\* ITerminalEnvironment | undefined
NoEnv == [defined |-> FALSE, entries |-> <<>>]

Env(es) == [defined |-> TRUE, entries |-> es]

Keys(env) == {env[i].key : i \in 1..Len(env)}

HasKey(env, k) == \E i \in 1..Len(env) : env[i].key = k

\* env[k]: the value under k, undefined when k is no own key
Get(env, k) ==
    IF HasKey(env, k)
    THEN env[CHOOSE i \in 1..Len(env) : env[i].key = k].value
    ELSE Undefined

\* env[k] = v: an existing key keeps its place, a new key goes last
Put(env, k, v) ==
    IF HasKey(env, k)
    THEN [i \in 1..Len(env) |-> IF env[i].key = k THEN Entry(k, v) ELSE env[i]]
    ELSE Append(env, Entry(k, v))

\* delete env[k]
RECURSIVE Delete(_, _)
Delete(env, k) ==
    IF env = <<>> THEN <<>>
    ELSE IF Head(env).key = k THEN Delete(Tail(env), k)
    ELSE <<Head(env)>> \o Delete(Tail(env), k)

EqualIgnoringCase(k1, k2) == toLowerCase(k1) = toLowerCase(k2)

(***************************************************************************)
(* mergeEnvironments, mergeNonNullKeys                                     *)
(***************************************************************************)
VARIABLES
    isWindows           \* vs/base/common/platform isWindows

\* Mutant: the value is assigned whatever it is, null included.
_mergeEnvironmentValue_Assigns(env, key, value) == Put(env, key, value)

\* _mergeEnvironmentValue(env, key, value): a string is assigned, anything
\* else (null) deletes the key.
_mergeEnvironmentValue(env, key, value) ==
    IF IsStr(value) THEN Put(env, key, value) ELSE Delete(env, key)

\* Mutant: the key is used as given on every platform.
ActualKey_AsGiven(parent, configKey) == configKey

\* The key the Windows branch writes to: the first key of parent (in for-in
\* order) that equals configKey ignoring case, else configKey itself.
ActualKey(parent, configKey) ==
    IF \E i \in 1..Len(parent) : EqualIgnoringCase(configKey, parent[i].key)
    THEN parent[CHOOSE i \in 1..Len(parent) :
                    /\ EqualIgnoringCase(configKey, parent[i].key)
                    /\ \A j \in 1..(i - 1) :
                           ~EqualIgnoringCase(configKey, parent[j].key)].key
    ELSE configKey

\* One iteration of the loop over the keys of other (lines 30-42, 44-49):
\* an undefined value is skipped.
MergeOne(parent, entry) ==
    LET configKey == entry.key
        value     == entry.value
        actualKey == IF isWindows THEN ActualKey(parent, configKey)
                     ELSE configKey
    IN  IF value # Undefined
        THEN _mergeEnvironmentValue(parent, actualKey, value)
        ELSE parent

\* The loop over the keys of other; parent is mutated as the loop runs, so
\* each key is matched against the parent the earlier keys have left.
RECURSIVE MergeLoop(_, _)
MergeLoop(parent, entries) ==
    IF entries = <<>> THEN parent
    ELSE MergeLoop(MergeOne(parent, Head(entries)), Tail(entries))

\* mergeEnvironments(parent, other): parent after the call
mergeEnvironments(parent, other) ==
    IF ~other.defined THEN parent ELSE MergeLoop(parent, other.entries)

RECURSIVE NonNullLoop(_, _)
NonNullLoop(env, entries) ==
    IF entries = <<>> THEN env
    ELSE LET value == Head(entries).value
         IN  NonNullLoop(IF value # Undefined /\ value # Null
                         THEN Put(env, Head(entries).key, value)
                         ELSE env,
                         Tail(entries))

\* Mutant: only undefined is skipped, a null entry is copied.
RECURSIVE KeepsNullLoop(_, _)
KeepsNullLoop(env, entries) ==
    IF entries = <<>> THEN env
    ELSE KeepsNullLoop(IF Head(entries).value # Undefined
                       THEN Put(env, Head(entries).key, Head(entries).value)
                       ELSE env,
                       Tail(entries))

mergeNonNullKeys_KeepsNull(env, other) ==
    IF ~other.defined THEN env ELSE KeepsNullLoop(env, other.entries)

\* mergeNonNullKeys(env, other): env after the call
mergeNonNullKeys(env, other) ==
    IF ~other.defined THEN env ELSE NonNullLoop(env, other.entries)

(***************************************************************************)
(* Locale: shouldSetLangEnvVariable, getLangEnvVariable                    *)
(***************************************************************************)
K_LANG == <<"L","A","N","G">>

K_TERM_PROGRAM == <<"T","E","R","M","_","P","R","O","G","R","A","M">>

K_TERM_PROGRAM_VERSION ==
    K_TERM_PROGRAM \o <<"_","V","E","R","S","I","O","N">>

K_COLORTERM == <<"C","O","L","O","R","T","E","R","M">>

K_VSCODE_IPC_HOOK_CLI ==
    <<"V","S","C","O","D","E","_","I","P","C","_","H","O","O","K","_","C","L","I">>

K_VSCODE_PROXY_URI ==
    <<"V","S","C","O","D","E","_","P","R","O","X","Y","_","U","R","I">>

S_vscode == <<"v","s","c","o","d","e">>

S_truecolor == <<"t","r","u","e","c","o","l","o","r">>

S_UTF8 == <<".","U","T","F","-","8">>

S_utf8 == <<".","u","t","f","8">>

S_euc == <<".","e","u","c">>

\* lang.search(/\.euc.+/) !== -1: ".euc" directly followed by at least one
\* character that '.' matches, that is, one that is no line terminator.
MatchesEuc(lang) ==
    \E i \in 1..Len(lang) :
        /\ HasAt(lang, S_euc, i)
        /\ i + 4 <= Len(lang)
        /\ lang[i + 4] \notin LineTerminators

\* Mutant: the /\.euc.+/ test is left out.
shouldSetLangEnvVariable_NoEuc(env, detectLocale) ==
    IF detectLocale = "on" THEN TRUE
    ELSE IF detectLocale = "auto"
    THEN LET lang == Get(env, K_LANG)
         IN  \/ ~IsStr(lang)
             \/ lang.str = <<>>
             \/ /\ ~EndsWith(lang.str, S_UTF8)
                /\ ~EndsWith(lang.str, S_utf8)
    ELSE FALSE

\* shouldSetLangEnvVariable(env, detectLocale)
shouldSetLangEnvVariable(env, detectLocale) ==
    IF detectLocale = "on" THEN TRUE
    ELSE IF detectLocale = "auto"
    THEN LET lang == Get(env, K_LANG)
         IN  \/ ~IsStr(lang)
             \/ lang.str = <<>>
             \/ /\ ~EndsWith(lang.str, S_UTF8)
                /\ ~EndsWith(lang.str, S_utf8)
                /\ ~MatchesEuc(lang.str)
    ELSE FALSE

\* const languageVariants = { af: 'ZA', ... }
languageVariants ==
    {
      <<<<"a","f">>, <<"Z","A">>>>,
      <<<<"a","m">>, <<"E","T">>>>,
      <<<<"b","e">>, <<"B","Y">>>>,
      <<<<"b","g">>, <<"B","G">>>>,
      <<<<"c","a">>, <<"E","S">>>>,
      <<<<"c","s">>, <<"C","Z">>>>,
      <<<<"d","a">>, <<"D","K">>>>,
      <<<<"d","e">>, <<"D","E">>>>,
      <<<<"e","l">>, <<"G","R">>>>,
      <<<<"e","n">>, <<"U","S">>>>,
      <<<<"e","s">>, <<"E","S">>>>,
      <<<<"e","t">>, <<"E","E">>>>,
      <<<<"e","u">>, <<"E","S">>>>,
      <<<<"f","i">>, <<"F","I">>>>,
      <<<<"f","r">>, <<"F","R">>>>,
      <<<<"h","e">>, <<"I","L">>>>,
      <<<<"h","r">>, <<"H","R">>>>,
      <<<<"h","u">>, <<"H","U">>>>,
      <<<<"h","y">>, <<"A","M">>>>,
      <<<<"i","s">>, <<"I","S">>>>,
      <<<<"i","t">>, <<"I","T">>>>,
      <<<<"j","a">>, <<"J","P">>>>,
      <<<<"k","k">>, <<"K","Z">>>>,
      <<<<"k","o">>, <<"K","R">>>>,
      <<<<"l","t">>, <<"L","T">>>>,
      <<<<"n","l">>, <<"N","L">>>>,
      <<<<"n","o">>, <<"N","O">>>>,
      <<<<"p","l">>, <<"P","L">>>>,
      <<<<"p","t">>, <<"B","R">>>>,
      <<<<"r","o">>, <<"R","O">>>>,
      <<<<"r","u">>, <<"R","U">>>>,
      <<<<"s","k">>, <<"S","K">>>>,
      <<<<"s","l">>, <<"S","I">>>>,
      <<<<"s","r">>, <<"Y","U">>>>,
      <<<<"s","v">>, <<"S","E">>>>,
      <<<<"t","r">>, <<"T","R">>>>,
      <<<<"u","k">>, <<"U","A">>>>,
      <<<<"z","h">>, <<"C","N">>>> }

\* getLangEnvVariable(locale), locale a string value or undefined
getLangEnvVariable(locale) ==
    LET parts == IF IsStr(locale) /\ locale.str # <<>>
                 THEN split(locale.str, "-") ELSE <<>>
        n     == Len(parts)
    IN  IF n = 0 THEN <<"e","n","_","U","S">> \o S_UTF8
        ELSE LET parts2 ==
                     IF n = 1
                     THEN IF \E p \in languageVariants : p[1] = parts[1]
                          THEN Append(parts,
                                   (CHOOSE p \in languageVariants :
                                        p[1] = parts[1])[2])
                          ELSE parts
                     ELSE [parts EXCEPT ![2] = toUpperCase(parts[2])]
             IN  join(parts2, <<"_">>) \o S_UTF8

\* addTerminalEnvironmentKeys(env, version, locale, detectLocale): env after
addTerminalEnvironmentKeys(env, version, locale, detectLocale) ==
    LET e1 == Put(env, K_TERM_PROGRAM, Str(S_vscode))
        e2 == IF IsStr(version) /\ version.str # <<>>
              THEN Put(e1, K_TERM_PROGRAM_VERSION, version) ELSE e1
        e3 == IF shouldSetLangEnvVariable(e2, detectLocale)
              THEN Put(e2, K_LANG, Str(getLangEnvVariable(locale))) ELSE e2
    IN  Put(e3, K_COLORTERM, Str(S_truecolor))

\* sanitizeProcessEnvironment(env, ...keys) of vs/base/common/processes:
\* removes the named keys in place.
RECURSIVE sanitizeProcessEnvironment(_, _)
sanitizeProcessEnvironment(env, keys) ==
    IF keys = <<>> THEN env
    ELSE sanitizeProcessEnvironment(Delete(env, Head(keys)), Tail(keys))

(***************************************************************************)
(* createTerminalEnvironment                                               *)
(*                                                                         *)
(* The function is asynchronous and runs on one thread: it runs atomically *)
(* from one await to the next.  With no variableResolver (or strictEnv) it *)
(* has no await that another task can interleave with and is one step.     *)
(* With a resolver it suspends in resolveConfigurationVariables, first for *)
(* the clone of envFromConfig, then for shellLaunchConfig.env: all         *)
(* resolver calls of one map are issued at once and settle in any order.   *)
(*                                                                         *)
(* version and detectLocale are read only by addTerminalEnvironmentKeys    *)
(* (line 281); they are drawn where they are read, which gives the same    *)
(* results as drawing them at the call.                                    *)
(***************************************************************************)
VARIABLES
    shellLaunchConfig,      \* [strictEnv, env]; env is substituted in place
    envFromConfig,          \* ITerminalEnvironment | undefined
    variableResolver,       \* TRUE: a resolver is supplied
    baseEnv,                \* IProcessEnvironment
    version,                \* string | undefined, once read
    detectLocale,           \* "auto" | "off" | "on", once read
    language,               \* vs/base/common/platform language
    pc,                     \* where createTerminalEnvironment stands
    env,                    \* const env: IProcessEnvironment = {}
    allowedEnvFromConfig,   \* { ...envFromConfig }
    pending,                \* resolver calls in flight: entries [key, value]
    settled,                \* history: how each resolver call ended
    launchEnvAtCall         \* history: shellLaunchConfig.env at the call

buildVars == <<shellLaunchConfig, envFromConfig, variableResolver, baseEnv,
               version, detectLocale, language, pc, env,
               allowedEnvFromConfig, pending, settled, launchEnvAtCall>>

Versions == {Undefined, Str(<<"1">>)}

DetectLocales == {"auto", "off", "on"}

\* The string-valued entries of a map: the resolver calls that
\* resolveConfigurationVariables issues for it.
StringEntries(entries) ==
    {entries[i] : i \in {j \in 1..Len(entries) : IsStr(entries[j].value)}}

\* Mutant: shellLaunchConfig.env is merged before the config overlay.
FinishEnvironment_LaunchFirst(e, cfg, launch, v, d) ==
    LET e1 == sanitizeProcessEnvironment(e,
                  <<K_VSCODE_IPC_HOOK_CLI, K_VSCODE_PROXY_URI>>)
        e2 == mergeEnvironments(e1, launch)
        e3 == mergeEnvironments(e2, cfg)
    IN  addTerminalEnvironmentKeys(e3, v, language, d)

\* Mutant: the environment is not sanitized.
FinishEnvironment_NoSanitize(e, cfg, launch, v, d) ==
    LET e2 == mergeEnvironments(e, cfg)
        e3 == mergeEnvironments(e2, launch)
    IN  addTerminalEnvironmentKeys(e3, v, language, d)

\* The tail of createTerminalEnvironment, lines 272-283: sanitize, merge the
\* two overlays, add the terminal keys.
FinishEnvironment(e, cfg, launch, v, d) ==
    LET e1 == sanitizeProcessEnvironment(e,
                  <<K_VSCODE_IPC_HOOK_CLI, K_VSCODE_PROXY_URI>>)
        e2 == mergeEnvironments(e1, cfg)
        e3 == mergeEnvironments(e2, launch)
    IN  addTerminalEnvironmentKeys(e3, v, language, d)

\* strictEnv: only the requested env, null entries ignored (lines 253-255).
BuildStrict ==
    /\ pc = "call"
    /\ shellLaunchConfig.strictEnv
    /\ env' = mergeNonNullKeys(<<>>, shellLaunchConfig.env)
    /\ pc' = "done"
    /\ UNCHANGED <<isWindows, shellLaunchConfig, envFromConfig,
                   variableResolver, version, detectLocale, baseEnv, language,
                   allowedEnvFromConfig, pending, settled, launchEnvAtCall>>

\* No resolver: the whole function runs without suspending.
BuildNoResolver(v, d) ==
    /\ pc = "call"
    /\ ~shellLaunchConfig.strictEnv
    /\ ~variableResolver
    /\ allowedEnvFromConfig' = Env(envFromConfig.entries)
    /\ env' = FinishEnvironment(mergeNonNullKeys(<<>>, Env(baseEnv)),
                                Env(envFromConfig.entries),
                                shellLaunchConfig.env, v, d)
    /\ version' = v
    /\ detectLocale' = d
    /\ pc' = "done"
    /\ UNCHANGED <<isWindows, shellLaunchConfig, envFromConfig,
                   variableResolver, baseEnv, language, pending, settled,
                   launchEnvAtCall>>

\* With a resolver: copy baseEnv, clone envFromConfig and issue the resolver
\* calls for the clone's string entries (lines 258-265, 85-88).
BuildResolveConfig ==
    /\ pc = "call"
    /\ ~shellLaunchConfig.strictEnv
    /\ variableResolver
    /\ env' = mergeNonNullKeys(<<>>, Env(baseEnv))
    /\ allowedEnvFromConfig' = Env(envFromConfig.entries)
    /\ pending' = StringEntries(envFromConfig.entries)
    /\ pc' = "resolveConfig"
    /\ UNCHANGED <<isWindows, shellLaunchConfig, envFromConfig,
                   variableResolver, version, detectLocale, baseEnv, language,
                   settled, launchEnvAtCall>>

\* env[key] = v on the map the pending resolver calls belong to.
WriteResolved(key, v) ==
    IF pc = "resolveConfig"
    THEN /\ allowedEnvFromConfig' =
                Env(Put(allowedEnvFromConfig.entries, key, v))
         /\ UNCHANGED shellLaunchConfig
    ELSE /\ shellLaunchConfig' =
                [shellLaunchConfig EXCEPT
                     !.env = Env(Put(shellLaunchConfig.env.entries, key, v))]
         /\ UNCHANGED allowedEnvFromConfig

\* A resolver call fulfils: env[key] = await variableResolver(value)
ResolverFulfils(p, out) ==
    /\ pc \in {"resolveConfig", "resolveLaunch"}
    /\ p \in pending
    /\ WriteResolved(p.key, Str(out))
    /\ pending' = pending \ {p}
    /\ settled' = settled \cup
                      {[map |-> pc, key |-> p.key, ok |-> TRUE, out |-> out]}
    /\ UNCHANGED <<isWindows, envFromConfig, variableResolver, version,
                   detectLocale, baseEnv, language, pc, env, launchEnvAtCall>>

\* Mutant: no catch, the rejection reaches the caller.
ResolverRejects_NoCatch(p) ==
    /\ pc \in {"resolveConfig", "resolveLaunch"}
    /\ p \in pending
    /\ pc' = "rejected"
    /\ UNCHANGED <<isWindows, shellLaunchConfig, envFromConfig,
                   variableResolver, baseEnv, version, detectLocale, language,
                   env, allowedEnvFromConfig, pending, settled,
                   launchEnvAtCall>>

\* A resolver call rejects (or throws): catch (e) { env[key] = value }
ResolverRejects(p) ==
    /\ pc \in {"resolveConfig", "resolveLaunch"}
    /\ p \in pending
    /\ WriteResolved(p.key, p.value)
    /\ pending' = pending \ {p}
    /\ settled' = settled \cup
                      {[map |-> pc, key |-> p.key, ok |-> FALSE, out |-> <<>>]}
    /\ UNCHANGED <<isWindows, envFromConfig, variableResolver, version,
                   detectLocale, baseEnv, language, pc, env, launchEnvAtCall>>

\* Promise.all of the clone's calls has settled: issue the calls for
\* shellLaunchConfig.env, if there is one (lines 267-269).
BuildResolveLaunch ==
    /\ pc = "resolveConfig"
    /\ pending = {}
    /\ pending' = IF shellLaunchConfig.env.defined
                  THEN StringEntries(shellLaunchConfig.env.entries) ELSE {}
    /\ pc' = "resolveLaunch"
    /\ UNCHANGED <<isWindows, shellLaunchConfig, envFromConfig,
                   variableResolver, version, detectLocale, baseEnv, language,
                   env, allowedEnvFromConfig, settled, launchEnvAtCall>>

\* Both substitutions are done: lines 272-283.
BuildFinish(v, d) ==
    /\ pc = "resolveLaunch"
    /\ pending = {}
    /\ env' = FinishEnvironment(env, allowedEnvFromConfig,
                                shellLaunchConfig.env, v, d)
    /\ version' = v
    /\ detectLocale' = d
    /\ pc' = "done"
    /\ UNCHANGED <<isWindows, shellLaunchConfig, envFromConfig,
                   variableResolver, baseEnv, language, allowedEnvFromConfig,
                   pending, settled, launchEnvAtCall>>

(***************************************************************************)
(* Inputs of createTerminalEnvironment                                     *)
(*                                                                         *)
(* The three layers interact only through key names (equal, or equal       *)
(* ignoring case), so the inputs are drawn from three families, each over  *)
(* the names one concern is about: an ordinary name in several casings,    *)
(* the LANG key with the values the locale test tells apart, and the two   *)
(* sanitized keys.                                                         *)
(***************************************************************************)
K_PATH == <<"P","A","T","H">>

K_Path == <<"P","a","t","h">>

K_path == <<"p","a","t","h">>

K_Lang == <<"L","a","n","g">>

K_vscode_proxy_uri == toLowerCase(K_VSCODE_PROXY_URI)

\* One value per layer, so that a result tells which layer it came from.
V_base == <<"b">>

V_config == <<"c">>

V_launch == <<"l">>

\* The value a resolver call fulfils with.
ResolverOutputs == {<<"r">>}

\* The LANG values that shouldSetLangEnvVariable tells apart.
LangValues ==
    { <<>>,
      <<"C">>,
      <<"a">> \o S_UTF8,
      <<"b">> \o S_utf8,
      <<"c">> \o S_euc \o <<"J","P">>,
      <<"d">> \o S_euc,
      <<"e">> \o S_euc \o <<"\n">>,
      S_UTF8 \o <<"x">> }

Languages == {Undefined, Str(<<"f","r">>), Str(<<"e","n","-","g","b">>)}

\* The largest number of entries of shellLaunchConfig.env.
MaxLaunchLen == 2

\* The maps of at most n entries over a set of entries, keys all different.
MapsOver(entries, n) ==
    {m \in UNION {[1..k -> entries] : k \in 0..n} :
        \A i, j \in 1..Len(m) : i # j => m[i].key # m[j].key}

OptionalEnvs(entries, n) == {NoEnv} \cup {Env(m) : m \in MapsOver(entries, n)}

Entries(keys, values) == {Entry(k, v) : k \in keys, v \in values}

NoCaseDuplicates(m) ==
    \A i, j \in 1..Len(m) :
        i # j => ~EqualIgnoringCase(m[i].key, m[j].key)

\* The state at the call, whatever the arguments are.
AtCall ==
    /\ pc = "call"
    /\ env = <<>>
    /\ allowedEnvFromConfig = NoEnv
    /\ pending = {}
    /\ settled = {}
    /\ launchEnvAtCall = shellLaunchConfig.env
    /\ version = Undefined
    /\ detectLocale = "off"

Arguments(bases, configs, launches) ==
    /\ baseEnv \in bases
    /\ envFromConfig \in configs
    /\ shellLaunchConfig \in
           {[strictEnv |-> s, env |-> e] : s \in BOOLEAN, e \in launches}
    /\ variableResolver \in BOOLEAN

\* An ordinary name in the casings PATH, Path, path.
LayerInputs ==
    /\ language = Str(<<"f","r">>)
    /\ Arguments(
           MapsOver(Entries({K_PATH, K_Path}, {Str(V_base)}), 2),
           OptionalEnvs(Entries({K_PATH, K_Path},
                                {Str(V_config), Null}), 1),
           OptionalEnvs(Entries({K_PATH, K_Path, K_path},
                                {Str(V_launch), Null})
                            \cup {Entry(K_PATH, Undefined)},
                        MaxLaunchLen))

\* LANG (and Lang, which equals it ignoring case).
LocaleInputs ==
    /\ language \in Languages
    /\ Arguments(
           MapsOver(Entries({K_LANG}, {Str(v) : v \in LangValues}), 1),
           OptionalEnvs(Entries({K_LANG}, {Str(<<"a">> \o S_UTF8), Null}), 1),
           OptionalEnvs({Entry(K_LANG, Str(<<"b">> \o S_utf8)),
                         Entry(K_LANG, Null), Entry(K_Lang, Null)},
                        MaxLaunchLen))

\* The keys sanitizeProcessEnvironment is called with.
SanitizeInputs ==
    /\ language = Str(<<"f","r">>)
    /\ Arguments(
           MapsOver(Entries({K_VSCODE_IPC_HOOK_CLI, K_VSCODE_PROXY_URI},
                            {Str(V_base)}), 2),
           OptionalEnvs(Entries({K_VSCODE_PROXY_URI},
                                {Str(V_config), Null}), 1),
           OptionalEnvs(Entries({K_VSCODE_PROXY_URI, K_vscode_proxy_uri},
                                {Str(V_launch), Null})
                            \cup {Entry(K_VSCODE_IPC_HOOK_CLI, Str(V_launch))},
                        MaxLaunchLen))

BuildInputs ==
    /\ isWindows \in BOOLEAN
    /\ \/ LayerInputs
       \/ LocaleInputs
       \/ SanitizeInputs
    /\ AtCall

(***************************************************************************)
(* Properties of createTerminalEnvironment                                 *)
(***************************************************************************)
StrictDone == pc = "done" /\ shellLaunchConfig.strictEnv

NonStrictDone == pc = "done" /\ ~shellLaunchConfig.strictEnv

\* shellLaunchConfig.env and the config clone as merged (after substitution)
Launch == shellLaunchConfig.env.entries

Config == allowedEnvFromConfig.entries

\* The keys addTerminalEnvironmentKeys writes.
MarkerKeys ==
    {K_TERM_PROGRAM, K_TERM_PROGRAM_VERSION, K_LANG, K_COLORTERM}

\* Key equality as mergeEnvironments sees it on the platform.
SameName(k1, k2) ==
    IF isWindows THEN EqualIgnoringCase(k1, k2) ELSE k1 = k2

IsMarkerName(k) == \E m \in MarkerKeys : SameName(k, m)

\* The result holds v under K (on Windows: under a key equal ignoring case).
HoldsUnder(K, v) ==
    \E i \in 1..Len(env) : SameName(env[i].key, K) /\ env[i].value = v

\* No later entry of the map m writes to the name of m[j].
LastWriter(m, j) ==
    \A i \in (j + 1)..Len(m) :
        ~(SameName(m[i].key, m[j].key) /\ m[i].value # Undefined)

\* C1: with strictEnv the result is exactly the string-valued entries of
\* shellLaunchConfig.env as passed (null and undefined entries dropped, no
\* substitution), and nothing from baseEnv, the config overlay or the
\* terminal keys is added.
C1_StrictEnvOnly ==
    StrictDone =>
        LET L == launchEnvAtCall.entries
        IN  /\ \A i \in 1..Len(env) :
                   /\ IsStr(env[i].value)
                   /\ \E j \in 1..Len(L) : L[j] = env[i]
            /\ \A j \in 1..Len(L) :
                   IsStr(L[j].value) => Get(env, L[j].key) = L[j].value

C1_Witness ==
    /\ StrictDone
    /\ baseEnv # <<>>
    /\ envFromConfig.entries # <<>>
    /\ variableResolver
    /\ \E j \in 1..Len(launchEnvAtCall.entries) :
           IsStr(launchEnvAtCall.entries[j].value)
    /\ \E j \in 1..Len(launchEnvAtCall.entries) :
           launchEnvAtCall.entries[j].value = Null
    /\ Len(env) = 1

\* C2 as stated: every string entry (K, v) of shellLaunchConfig.env, K no
\* key addTerminalEnvironmentKeys writes, is in the result under K (on
\* Windows under a key equal to K ignoring case), and a key only the config
\* overlay sets to a string holds the config value.
C2_LastLayerWins_AsStated ==
    NonStrictDone =>
        /\ \A j \in 1..Len(Launch) :
               (IsStr(Launch[j].value) /\ Launch[j].key \notin MarkerKeys)
                   => HoldsUnder(Launch[j].key, Launch[j].value)
        /\ \A j \in 1..Len(Config) :
               ( /\ IsStr(Config[j].value)
                 /\ Config[j].key \notin MarkerKeys
                 /\ \A i \in 1..Len(Launch) :
                        ~(Launch[i].key = Config[j].key
                          /\ Launch[i].value # Undefined) )
                   => HoldsUnder(Config[j].key, Config[j].value)

\* C2 as amended: on Windows names are compared ignoring case throughout,
\* so K must not equal a key addTerminalEnvironmentKeys writes ignoring
\* case, and (K, v) must be the last entry of its map that writes to a key
\* equal to K ignoring case; the config value stands when no entry of
\* shellLaunchConfig.env writes to that name.
C2_LastLayerWins ==
    NonStrictDone =>
        /\ \A j \in 1..Len(Launch) :
               ( /\ IsStr(Launch[j].value)
                 /\ ~IsMarkerName(Launch[j].key)
                 /\ LastWriter(Launch, j) )
                   => HoldsUnder(Launch[j].key, Launch[j].value)
        /\ \A j \in 1..Len(Config) :
               ( /\ IsStr(Config[j].value)
                 /\ ~IsMarkerName(Config[j].key)
                 /\ LastWriter(Config, j)
                 /\ \A i \in 1..Len(Launch) :
                        ~(SameName(Launch[i].key, Config[j].key)
                          /\ Launch[i].value # Undefined) )
                   => HoldsUnder(Config[j].key, Config[j].value)

C2_Witness ==
    /\ NonStrictDone
    /\ \E j \in 1..Len(Launch) :
           /\ IsStr(Launch[j].value)
           /\ ~IsMarkerName(Launch[j].key)
           /\ HasKey(baseEnv, Launch[j].key)
           /\ IsStr(Get(Config, Launch[j].key))
           /\ Get(Config, Launch[j].key) # Launch[j].value
           /\ Get(env, Launch[j].key) = Launch[j].value

Substituted(map, before, after) ==
    /\ Len(after) = Len(before)
    /\ \A i \in 1..Len(before) :
           /\ after[i].key = before[i].key
           /\ after[i].value =
                  IF /\ IsStr(before[i].value)
                     /\ \E r \in settled :
                            r.map = map /\ r.key = before[i].key /\ r.ok
                  THEN Str((CHOOSE r \in settled :
                                r.map = map /\ r.key = before[i].key).out)
                  ELSE before[i].value

\* C5: under every order in which the resolver calls fulfil or reject, the
\* substituted map keeps its keys, each string entry holds the output of its
\* own call or, if that call failed, its original string, null entries are
\* untouched, and no rejection reaches the caller of the build.
C5_PerKeyBestEffort ==
    /\ pc \in {"call", "resolveConfig", "resolveLaunch", "done"}
    /\ pc \in {"resolveConfig", "resolveLaunch"} =>
           /\ Substituted("resolveConfig", envFromConfig.entries, Config)
           /\ Substituted("resolveLaunch", launchEnvAtCall.entries, Launch)
    /\ (NonStrictDone /\ variableResolver) =>
           /\ Substituted("resolveConfig", envFromConfig.entries, Config)
           /\ Substituted("resolveLaunch", launchEnvAtCall.entries, Launch)
           /\ \A i \in 1..Len(envFromConfig.entries) :
                  IsStr(envFromConfig.entries[i].value) =>
                      \E r \in settled :
                          /\ r.map = "resolveConfig"
                          /\ r.key = envFromConfig.entries[i].key
           /\ \A i \in 1..Len(launchEnvAtCall.entries) :
                  IsStr(launchEnvAtCall.entries[i].value) =>
                      \E r \in settled :
                          /\ r.map = "resolveLaunch"
                          /\ r.key = launchEnvAtCall.entries[i].key

C5_Witness ==
    /\ NonStrictDone
    /\ \E r1, r2 \in settled :
           /\ r1.map = "resolveLaunch" /\ r2.map = "resolveLaunch"
           /\ r1.key # r2.key
           /\ r1.ok /\ ~r2.ok
    /\ \E r \in settled : r.map = "resolveConfig" /\ ~r.ok
    /\ \E i \in 1..Len(Launch) : Launch[i].value = Str(<<"r">>)
    /\ \E i \in 1..Len(Launch) : Launch[i].value = Str(V_launch)

SanitizedKeys == {K_VSCODE_IPC_HOOK_CLI, K_VSCODE_PROXY_URI}

\* C8 as stated: the result of a non-strict build holds neither
\* VSCODE_IPC_HOOK_CLI nor VSCODE_PROXY_URI.
C8_NeverForwarded_AsStated ==
    NonStrictDone => \A K \in SanitizedKeys : ~HasKey(env, K)

\* C8 as amended: the two keys are never forwarded from baseEnv; the result
\* holds one of them only when the config overlay or shellLaunchConfig.env
\* sets that key to a string, and its value is then a value of those
\* overlays, not the base value.
C8_NeverForwardedFromBase ==
    NonStrictDone =>
        \A K \in SanitizedKeys :
            HasKey(env, K) =>
                /\ \/ IsStr(Get(Config, K))
                   \/ IsStr(Get(Launch, K))
                /\ \/ \E i \in 1..Len(Config) :
                          /\ SameName(Config[i].key, K)
                          /\ Config[i].value = Get(env, K)
                   \/ \E i \in 1..Len(Launch) :
                          /\ SameName(Launch[i].key, K)
                          /\ Launch[i].value = Get(env, K)

C8_Witness ==
    /\ NonStrictDone
    /\ Get(baseEnv, K_VSCODE_PROXY_URI) = Str(V_base)
    /\ Get(baseEnv, K_VSCODE_IPC_HOOK_CLI) = Str(V_base)
    /\ ~HasKey(env, K_VSCODE_IPC_HOOK_CLI)
    /\ Get(env, K_VSCODE_PROXY_URI) = Str(V_config)

\* The environment as the three layers leave it, before
\* addTerminalEnvironmentKeys.
MergedLayers ==
    mergeEnvironments(
        mergeEnvironments(
            sanitizeProcessEnvironment(
                mergeNonNullKeys(<<>>, Env(baseEnv)),
                <<K_VSCODE_IPC_HOOK_CLI, K_VSCODE_PROXY_URI>>),
            allowedEnvFromConfig),
        shellLaunchConfig.env)

\* LANG of the result, given which merged values are left unchanged in mode
\* auto.
LangDecidedBy(keeps) ==
    LET merged == Get(MergedLayers, K_LANG)
        built  == Str(getLangEnvVariable(language))
    IN  Get(env, K_LANG) =
            IF detectLocale = "on" THEN built
            ELSE IF detectLocale = "off" THEN merged
            ELSE IF IsStr(merged) /\ keeps THEN merged
            ELSE built

MergedLang == Get(MergedLayers, K_LANG).str

\* The last n characters of s (all of s when it is shorter).
LastChars(s, n) ==
    IF Len(s) <= n THEN s ELSE SubSeq(s, Len(s) - n + 1, Len(s))

\* C9 as stated: LANG is decided on the merged environment: mode on gives
\* the built locale value, mode off leaves the merged LANG, mode auto gives
\* the built value unless the merged LANG ends with .UTF-8 or .utf8 or
\* contains .euc followed by further characters.
C9_LangInjection_AsStated ==
    NonStrictDone =>
        LangDecidedBy(
            \/ LastChars(MergedLang, 6) = S_UTF8
            \/ LastChars(MergedLang, 5) = S_utf8
            \/ \E i \in 1..Len(MergedLang) :
                   /\ i + 4 <= Len(MergedLang)
                   /\ SubSeq(MergedLang, i, i + 3) = S_euc)

\* C9 as amended: the character that follows .euc must be one that the
\* pattern's '.' matches, that is, no line terminator.
C9_LangInjection ==
    NonStrictDone =>
        LangDecidedBy(
            \/ LastChars(MergedLang, 6) = S_UTF8
            \/ LastChars(MergedLang, 5) = S_utf8
            \/ \E i \in 1..Len(MergedLang) :
                   /\ i + 4 <= Len(MergedLang)
                   /\ SubSeq(MergedLang, i, i + 3) = S_euc
                   /\ MergedLang[i + 4] \notin LineTerminators)

C9_Witness ==
    /\ NonStrictDone
    /\ detectLocale = "auto"
    /\ Get(baseEnv, K_LANG) = Str(<<"c">> \o S_euc \o <<"J","P">>)
    /\ Get(env, K_LANG) = Str(<<"c">> \o S_euc \o <<"J","P">>)
    /\ language = Str(<<"e","n","-","g","b">>)

(***************************************************************************)
(* mergeEnvironments on its own, one loop iteration per step               *)
(***************************************************************************)
VARIABLES
    parent,             \* IProcessEnvironment, mutated in place
    other,              \* ITerminalEnvironment | undefined
    mergeIndex,         \* the keys of other already visited
    mergePc,            \* "call" | "loop" | "done"
    parentAtCall,       \* history: parent when mergeEnvironments was called
    lastIteration       \* history: <<>> or <<[before, entry]>>, the parent
                        \* before the last iteration and the entry it took

mergeVars == <<parent, other, mergeIndex, mergePc, parentAtCall,
               lastIteration>>

\* if (!other) { return; }
MergeCall ==
    /\ mergePc = "call"
    /\ mergePc' = IF other.defined THEN "loop" ELSE "done"
    /\ UNCHANGED <<isWindows, parent, other, mergeIndex, parentAtCall,
                   lastIteration>>

MergeIteration ==
    /\ mergePc = "loop"
    /\ mergeIndex < Len(other.entries)
    /\ parent' = MergeOne(parent, other.entries[mergeIndex + 1])
    /\ lastIteration' = <<[before |-> parent,
                           entry |-> other.entries[mergeIndex + 1]]>>
    /\ mergeIndex' = mergeIndex + 1
    /\ UNCHANGED <<isWindows, other, mergePc, parentAtCall>>

MergeReturn ==
    /\ mergePc = "loop"
    /\ mergeIndex = Len(other.entries)
    /\ mergePc' = "done"
    /\ UNCHANGED <<isWindows, parent, other, mergeIndex, parentAtCall,
                   lastIteration>>

\* The largest number of entries of other.
MaxOtherLen == 2

MergeInputs ==
    /\ isWindows \in BOOLEAN
    /\ parent \in MapsOver(Entries({K_PATH, K_Path}, {Str(V_base)}), 2)
    /\ other \in OptionalEnvs(Entries({K_PATH, K_Path, K_path},
                                      {Str(V_launch), Null, Undefined}),
                              MaxOtherLen)
    /\ mergeIndex = 0
    /\ mergePc = "call"
    /\ parentAtCall = parent
    /\ lastIteration = <<>>

\* C4: on Windows mergeEnvironments creates no key that differs from another
\* only in case: a parent with no two keys equal ignoring case stays so
\* through every iteration, whatever casings other holds; a string value is
\* written under the key of parent that equals the overlay key ignoring
\* case, that key keeping its casing and its place, and the overlay key is
\* inserted as given only when no key of parent equals it ignoring case.
C4_NoCaseDuplicate ==
    (isWindows /\ NoCaseDuplicates(parentAtCall)) =>
        /\ NoCaseDuplicates(parent)
        /\ \A n \in 1..Len(lastIteration) :
               LET before == lastIteration[n].before
                   entry  == lastIteration[n].entry
                   match  == {k \in Keys(before) :
                                  EqualIgnoringCase(k, entry.key)}
               IN  IsStr(entry.value) =>
                       IF match = {}
                       THEN parent = Append(before, entry)
                       ELSE /\ Len(parent) = Len(before)
                            /\ \A i \in 1..Len(before) :
                                   /\ parent[i].key = before[i].key
                                   /\ parent[i].value =
                                          IF before[i].key \in match
                                          THEN entry.value
                                          ELSE before[i].value

\* The case of the example: Path is merged into a parent that holds PATH,
\* and after other, which holds two casings, parent still has the one key.
C4_Witness ==
    /\ isWindows
    /\ mergePc = "done"
    /\ Keys(parentAtCall) = {K_PATH}
    /\ Len(other.entries) = 2
    /\ other.entries[1] = Entry(K_Path, Str(V_launch))
    /\ other.entries[2].key = K_path
    /\ parent = <<Entry(K_PATH, Str(V_launch))>>

(***************************************************************************)
(* getCwd, _resolveCwd                                                     *)
(***************************************************************************)
VARIABLES
    shell,              \* [cwd, ignoreConfigurationCwd]
    userHome,           \* string | undefined
    cwdResolver,        \* TRUE: a variableResolver is supplied
    root,               \* URI | undefined
    customCwd,          \* string | undefined (the parameter as passed)
    cwdPc,              \* "call" | "resolveShellCwd" | "resolveCustomCwd"
                        \* | "done"
    cwdResult,          \* the string getCwd resolves to
    cwdSettled,         \* history: <<>>, or how the resolver call ended
    cwdLogged           \* logService.error was called

cwdVars == <<shell, userHome, cwdResolver, root, customCwd, cwdPc, cwdResult,
             cwdSettled, cwdLogged>>

\* A URI, by its fsPath
Uri(fsPath) == [kind |-> "uri", str |-> fsPath]

\* JavaScript truthiness of string | URI | undefined | null
Truthy(v) == v.kind = "uri" \/ (IsStr(v) /\ v.str # <<>>)

IsLetter(c) ==
    \E i \in 1..26 : UpperChars[i] = c \/ LowerChars[i] = c

\* sanitizeCwd of vs/platform/terminal/common/terminalEnvironment: the
\* drive letter is made upper case on Windows.
sanitizeCwd(cwd) ==
    IF isWindows /\ Len(cwd) >= 2 /\ cwd[2] = ":"
    THEN <<CharToUpper(cwd[1])>> \o Tail(cwd)
    ELSE cwd

\* path.isAbsolute of vs/base/common/path, for the platform
isAbsolute(p) ==
    IF isWindows
    THEN \/ Len(p) >= 1 /\ p[1] \in {"/", "\\"}
         \/ Len(p) >= 3 /\ IsLetter(p[1]) /\ p[2] = ":"
                        /\ p[3] \in {"/", "\\"}
    ELSE Len(p) >= 1 /\ p[1] = "/"

\* path.join of vs/base/common/path, for two segments that need no
\* normalization
pathJoin(a, b) == a \o <<IF isWindows THEN "\\" ELSE "/">> \o b

\* Mutant: the unresolved literal is not fallen back to.
ReturnShellCwd_NoFallback(resolved, unresolved) ==
    sanitizeCwd(IF IsStr(resolved) THEN resolved.str ELSE <<>>)

\* return sanitizeCwd(resolved || unresolved), line 196
ReturnShellCwd(resolved, unresolved) ==
    sanitizeCwd(IF Truthy(resolved) THEN resolved.str ELSE unresolved)

\* Lines 205-219, with c the customCwd of line 205 and `entered` telling
\* whether the block of line 201 was entered.
FinishCwd(c, entered) ==
    LET candidate ==
            IF entered /\ Truthy(c)
            THEN IF isAbsolute(c.str) THEN c
                 ELSE IF root.kind = "uri" THEN Str(pathJoin(root.str, c.str))
                 ELSE Undefined
            ELSE Undefined
    IN  sanitizeCwd(
            IF Truthy(candidate) THEN candidate.str
            ELSE IF root.kind = "uri" THEN root.str
            ELSE IF Truthy(userHome) THEN userHome.str
            ELSE <<>>)

\* getCwd up to its first await that a resolver call suspends, or to its
\* return.
CwdCall ==
    /\ cwdPc = "call"
    /\ IF Truthy(shell.cwd)
       THEN IF cwdResolver
            THEN /\ cwdPc' = "resolveShellCwd"
                 /\ UNCHANGED cwdResult
            ELSE /\ cwdPc' = "done"
                 /\ cwdResult' = ReturnShellCwd(Str(shell.cwd.str),
                                                shell.cwd.str)
       ELSE IF ~shell.ignoreConfigurationCwd /\ Truthy(customCwd)
                                              /\ cwdResolver
            THEN /\ cwdPc' = "resolveCustomCwd"
                 /\ UNCHANGED cwdResult
            ELSE /\ cwdPc' = "done"
                 /\ cwdResult' =
                        FinishCwd(customCwd, ~shell.ignoreConfigurationCwd)
    /\ UNCHANGED <<isWindows, shell, userHome, cwdResolver, root, customCwd,
                   cwdSettled, cwdLogged>>

\* return await variableResolver(cwd), line 225
CwdResolverFulfils(out) ==
    /\ cwdPc \in {"resolveShellCwd", "resolveCustomCwd"}
    /\ cwdResult' = IF cwdPc = "resolveShellCwd"
                    THEN ReturnShellCwd(Str(out), shell.cwd.str)
                    ELSE FinishCwd(Str(out), TRUE)
    /\ cwdSettled' = <<[ok |-> TRUE, out |-> out]>>
    /\ cwdPc' = "done"
    /\ UNCHANGED <<isWindows, shell, userHome, cwdResolver, root, customCwd,
                   cwdLogged>>

\* catch (e) { logService?.error(...); return undefined; }, lines 226-229;
\* line 195 passes no logService.
CwdResolverRejects ==
    /\ cwdPc \in {"resolveShellCwd", "resolveCustomCwd"}
    /\ cwdResult' = IF cwdPc = "resolveShellCwd"
                    THEN ReturnShellCwd(Undefined, shell.cwd.str)
                    ELSE FinishCwd(Undefined, TRUE)
    /\ cwdLogged' = (cwdPc = "resolveCustomCwd")
    /\ cwdSettled' = <<[ok |-> FALSE, out |-> <<>>]>>
    /\ cwdPc' = "done"
    /\ UNCHANGED <<isWindows, shell, userHome, cwdResolver, root,
                   customCwd>>

P_shell == <<"c",":","\\","s">>

P_uri == <<"/","u">>

P_custom == <<"/","c">>

P_relative == <<"r","e","l">>

P_root == <<"e",":","\\","w">>

P_home == <<"/","h">>

\* What the resolver fulfils with: nothing left, an absolute path with a
\* drive letter, a relative path.
ResolvedCwds == {<<>>, <<"d",":","\\","r">>, <<"s","u","b">>}

CwdInputs ==
    /\ isWindows \in BOOLEAN
    /\ shell \in {[cwd |-> c, ignoreConfigurationCwd |-> i] :
                     c \in {Undefined, Str(<<>>), Str(P_shell), Uri(P_uri)},
                     i \in BOOLEAN}
    /\ userHome \in {Undefined, Str(P_home)}
    /\ cwdResolver \in BOOLEAN
    /\ root \in {Undefined, Uri(P_root)}
    /\ customCwd \in {Undefined, Str(<<>>), Str(P_custom), Str(P_relative)}
    /\ cwdPc = "call"
    /\ cwdResult = <<>>
    /\ cwdSettled = <<>>
    /\ cwdLogged = FALSE

CwdDoneWithShellCwd == cwdPc = "done" /\ Truthy(shell.cwd)

\* C6 as stated: whenever shell.cwd is set, getCwd returns the sanitized
\* resolver output for it, or the sanitized unresolved literal when there is
\* no resolver or the resolver fails; never anything derived from customCwd,
\* root or userHome.
C6_ShellCwdWins_AsStated ==
    CwdDoneWithShellCwd =>
        cwdResult =
            sanitizeCwd(IF \E n \in 1..Len(cwdSettled) : cwdSettled[n].ok
                        THEN cwdSettled[1].out
                        ELSE shell.cwd.str)

\* C6 as amended: the unresolved literal is also what is sanitized and
\* returned when the resolver fulfils with the empty string.
C6_ShellCwdWins ==
    CwdDoneWithShellCwd =>
        cwdResult =
            sanitizeCwd(IF \E n \in 1..Len(cwdSettled) :
                               cwdSettled[n].ok /\ cwdSettled[n].out # <<>>
                        THEN cwdSettled[1].out
                        ELSE shell.cwd.str)

\* The resolver fails for a shell.cwd with a lower-case drive letter while a
\* configured cwd, a root and a home are all there.
C6_Witness ==
    /\ CwdDoneWithShellCwd
    /\ isWindows
    /\ shell.cwd = Str(P_shell)
    /\ ~shell.ignoreConfigurationCwd
    /\ customCwd = Str(P_custom)
    /\ root = Uri(P_root)
    /\ userHome = Str(P_home)
    /\ cwdSettled = <<[ok |-> FALSE, out |-> <<>>]>>
    /\ cwdResult = <<"C",":","\\","s">>

(***************************************************************************)
(* preparePathForShell                                                     *)
(***************************************************************************)
VARIABLES
    resource,           \* string | URI
    executable,         \* string | undefined
    title,              \* string
    shellType,          \* "none" (undefined) | "GitBash" | "Wsl"
                        \* | "CommandPrompt"
    backend,            \* TRUE: a backend is supplied
    os,                 \* "none" (undefined) | "Windows" | "Linux"
    isWindowsFrontend,  \* boolean
    pathPc,             \* "call" | "awaitWsl" | "done" | "rejected"
    originalPath,       \* let originalPath: string
    pathResult,         \* the string the call resolves to
    wslReply            \* history: <<>> or the reply of backend.getWslPath

pathVars == <<resource, executable, title, shellType, backend, os,
              isWindowsFrontend, pathPc, originalPath, pathResult, wslReply>>

S_exe == <<".","e","x","e">>

S_pwsh == <<"p","w","s","h">>

S_powershell == <<"p","o","w","e","r","s","h","e","l","l">>

S_wsl == <<"w","s","l">>

S_bash_exe == <<"b","a","s","h">> \o S_exe

S_git == <<"g","i","t">>

\* Mutant: the separators of a plain string are flipped as well.
NormalizedPath_AlsoStrings(res, targetOs, windowsFrontend) ==
    IF windowsFrontend /\ targetOs # "Windows"
    THEN replaceAll(res.str, "\\", <<"/">>)
    ELSE IF ~windowsFrontend /\ targetOs = "Windows"
    THEN replaceAll(res.str, "/", <<"\\">>)
    ELSE res.str

\* Lines 300-311: originalPath
NormalizedPath(res, targetOs, windowsFrontend) ==
    IF IsStr(res) THEN res.str
    ELSE IF windowsFrontend /\ targetOs # "Windows"
    THEN replaceAll(res.str, "\\", <<"/">>)
    ELSE IF ~windowsFrontend /\ targetOs = "Windows"
    THEN replaceAll(res.str, "/", <<"\\">>)
    ELSE res.str

\* path.basename(p, ext) of vs/base/common/path, for the platform: what
\* follows the last separator, without the extension ext if it ends with it.
basename(p, ext) ==
    LET seps == IF isWindows THEN {"/", "\\"} ELSE {"/"}
        cut  == {i \in 1..Len(p) : p[i] \in seps}
        last == IF cut = {} THEN 0
                ELSE CHOOSE i \in cut : \A j \in cut : j <= i
        name == SubSeq(p, last + 1, Len(p))
    IN  IF name # ext /\ EndsWith(name, ext)
        THEN SubSeq(name, 1, Len(name) - Len(ext))
        ELSE name

\* escapeNonWindowsPath of vs/platform/terminal/common/terminalEnvironment:
\* the characters a POSIX shell gives a meaning to are escaped with a
\* backslash.
PosixEscapedChars ==
    {" ", "'", "\"", "\\", "(", ")", "&", ";", "$", "|", "<", ">",
     "*", "?", "!", "#", "~"}

RECURSIVE escapeNonWindowsPath(_)
escapeNonWindowsPath(p) ==
    IF p = <<>> THEN <<>>
    ELSE (IF Head(p) \in PosixEscapedChars THEN <<"\\", Head(p)>>
          ELSE <<Head(p)>>) \o escapeNonWindowsPath(Tail(p))

\* const isPowerShell = ..., lines 320-324
isPowerShell(exe, ttl) ==
    LET pathBasename == basename(exe, S_exe)
    IN  \/ pathBasename = S_pwsh
        \/ ttl = S_pwsh
        \/ pathBasename = S_powershell
        \/ ttl = S_powershell

\* The test of line 351 on the executable's name
SniffsWsl(exe) ==
    LET lowerExecutable == toLowerCase(exe)
    IN  \/ includes(lowerExecutable, S_wsl)
        \/ /\ includes(lowerExecutable, S_bash_exe)
           /\ ~includes(toLowerCase(lowerExecutable), S_git)

\* Lines 313-359 for an executable that is given: what the call returns
\* without the backend ([wsl |-> FALSE, str]), or that it is at one of the
\* two returns that ask the backend ([wsl |-> TRUE]).
PreparedPath(path, exe, ttl, type, targetOs) ==
    LET hasSpace  == includes(path, <<" ">>)
        hasParens == includes(path, <<"(">>) \/ includes(path, <<")">>)
        ps        == isPowerShell(exe, ttl)
        Return(x) == [wsl |-> FALSE, str |-> x]
        AskWsl    == [wsl |-> TRUE, str |-> path]
    IN  IF ps /\ (hasSpace \/ includes(path, <<"'">>))
        THEN Return(<<"&", " ", "'">> \o replaceAll(path, "'", <<"'", "'">>)
                        \o <<"'">>)
        ELSE IF hasParens /\ ps
        THEN Return(<<"&", " ", "'">> \o path \o <<"'">>)
        ELSE IF targetOs = "Windows"
        THEN IF type # "none"
             THEN IF type = "GitBash"
                  THEN Return(escapeNonWindowsPath(
                                  replaceAll(path, "\\", <<"/">>)))
                  ELSE IF type = "Wsl" THEN AskWsl
                  ELSE IF hasSpace
                  THEN Return(<<"\"">> \o path \o <<"\"">>)
                  ELSE Return(path)
             ELSE IF SniffsWsl(exe) THEN AskWsl
             ELSE IF hasSpace THEN Return(<<"\"">> \o path \o <<"\"">>)
             ELSE Return(path)
        ELSE Return(escapeNonWindowsPath(path))

\* The replies of backend.getWslPath(originalPath, 'win-to-unix') that do
\* not suspend the call: it throws, or it returns a string or nothing.
\* (ITerminalBackend is declared outside this file; a reply that is a
\* promise is PrepareAwaitWsl.)
P_translated == <<"/","m","n","t","/","c">>

WslValues == {Str(P_translated), Str(<<>>), Undefined}

\* preparePathForShell up to its return, the backend not asked or replying
\* at once: backend?.getWslPath(...) || originalPath
PrepareCall ==
    /\ pathPc = "call"
    /\ LET path == NormalizedPath(resource, os, isWindowsFrontend)
       IN  /\ originalPath' = path
           /\ IF ~Truthy(executable)
              THEN /\ pathResult' = path
                   /\ pathPc' = "done"
                   /\ UNCHANGED wslReply
              ELSE LET prepared == PreparedPath(path, executable.str, title,
                                                shellType, os)
                   IN  IF ~prepared.wsl
                       THEN /\ pathResult' = prepared.str
                            /\ pathPc' = "done"
                            /\ UNCHANGED wslReply
                       ELSE IF ~backend
                       THEN /\ pathResult' = path
                            /\ pathPc' = "done"
                            /\ UNCHANGED wslReply
                       ELSE \/ /\ pathPc' = "rejected"
                               /\ wslReply' = <<[how |-> "throws",
                                                 value |-> Undefined]>>
                               /\ UNCHANGED pathResult
                            \/ \E v \in WslValues :
                                   /\ pathResult' =
                                          IF Truthy(v) THEN v.str ELSE path
                                   /\ wslReply' = <<[how |-> "returns",
                                                     value |-> v]>>
                                   /\ pathPc' = "done"
                            \/ /\ pathPc' = "awaitWsl"
                               /\ UNCHANGED <<pathResult, wslReply>>
    /\ UNCHANGED <<isWindows, resource, executable, title, shellType, backend,
                   os, isWindowsFrontend>>

\* getWslPath returned a promise, which is truthy: it is what the call
\* returns, and the call resolves to what the promise fulfils with.
WslFulfils(v) ==
    /\ pathPc = "awaitWsl"
    /\ pathResult' = v
    /\ wslReply' = <<[how |-> "fulfils", value |-> Str(v)]>>
    /\ pathPc' = "done"
    /\ UNCHANGED <<isWindows, resource, executable, title, shellType, backend,
                   os, isWindowsFrontend, originalPath>>

\* The promise rejects: so does the call.
WslRejects ==
    /\ pathPc = "awaitWsl"
    /\ wslReply' = <<[how |-> "rejects", value |-> Undefined]>>
    /\ pathPc' = "rejected"
    /\ UNCHANGED <<isWindows, resource, executable, title, shellType, backend,
                   os, isWindowsFrontend, originalPath, pathResult>>

ResourcePaths ==
    { <<"c","\\","d","/","e">>,
      <<"a"," ","b","\\","c">>,
      <<"a","'","b">>,
      <<"a","(","b">> }

Executables ==
    { Undefined,
      Str(<<>>),
      Str(S_pwsh),
      Str(S_wsl \o S_exe),
      Str(<<"C",":","\\">> \o S_bash_exe),
      Str(S_git \o <<"\\">> \o S_bash_exe),
      Str(<<"c","m","d">> \o S_exe),
      Str(S_wsl \o <<"\\">> \o S_pwsh \o S_exe) }

PathInputs ==
    /\ isWindows \in BOOLEAN
    /\ resource \in {Str(q) : q \in ResourcePaths}
                        \cup {Uri(q) : q \in ResourcePaths}
    /\ executable \in Executables
    /\ title \in {<<>>, S_pwsh}
    /\ shellType \in {"none", "GitBash", "Wsl", "CommandPrompt"}
    /\ backend \in BOOLEAN
    /\ os \in {"none", "Windows", "Linux"}
    /\ isWindowsFrontend \in BOOLEAN
    /\ pathPc = "call"
    /\ originalPath = <<>>
    /\ pathResult = <<>>
    /\ wslReply = <<>>

\* A Windows target with a WSL shell: shell type Wsl, or no shell type and an
\* executable name with 'wsl', or with 'bash.exe' and without 'git'.
WslShell ==
    /\ os = "Windows"
    /\ Truthy(executable)
    /\ \/ shellType = "Wsl"
       \/ /\ shellType = "none"
          /\ LET name == toLowerCase(executable.str)
             IN  \/ includes(name, S_wsl)
                 \/ includes(name, S_bash_exe) /\ ~includes(name, S_git)

\* Lines 327-333 return first for a PowerShell executable or title and a
\* path with a space, a quote or a parenthesis.
PowerShellQuotes ==
    /\ Truthy(executable)
    /\ isPowerShell(executable.str, title)
    /\ \E i \in 1..Len(originalPath) : originalPath[i] \in {" ", "'", "(", ")"}

\* C7: on a Windows target with a WSL shell the call never raises; it
\* returns the untranslated path when the backend is absent, fails or gives
\* an empty or absent translation, and the backend's translation otherwise.
\* Stated of the calls that come to the WSL branch of lines 335-357.
C7_WslFallback ==
    (WslShell /\ ~PowerShellQuotes /\ pathPc \in {"done", "rejected"}) =>
        /\ pathPc = "done"
        /\ pathResult =
               IF \E n \in 1..Len(wslReply) : Truthy(wslReply[n].value)
               THEN wslReply[1].value.str
               ELSE originalPath

\* Every separator of s that is `from` replaced by `to`
Flipped(s, from, to) ==
    [i \in 1..Len(s) |-> IF s[i] = from THEN to ELSE s[i]]

\* The path with the separators of the target OS
WithTargetSeparators(s) ==
    IF isWindowsFrontend /\ os # "Windows" THEN Flipped(s, "\\", "/")
    ELSE IF ~isWindowsFrontend /\ os = "Windows" THEN Flipped(s, "/", "\\")
    ELSE s

\* C10 as stated: the separators of every path input, a plain string or a
\* resource reference, are normalized to those of the target OS, and with no
\* executable the normalized path is returned as it is.
C10_Normalizes_AsStated ==
    pathPc # "call" =>
        /\ originalPath = WithTargetSeparators(resource.str)
        /\ ~Truthy(executable) =>
               pathPc = "done" /\ pathResult = originalPath

\* C10 as amended: only a resource reference has its separators normalized;
\* a plain string is taken as it is.
C10_Normalizes ==
    pathPc # "call" =>
        /\ originalPath = IF resource.kind = "uri"
                          THEN WithTargetSeparators(resource.str)
                          ELSE resource.str
        /\ ~Truthy(executable) =>
               pathPc = "done" /\ pathResult = originalPath

C10_Witness ==
    /\ pathPc = "done"
    /\ resource = Uri(<<"c","\\","d","/","e">>)
    /\ isWindowsFrontend
    /\ os = "Linux"
    /\ executable = Undefined
    /\ pathResult = <<"c","/","d","/","e">>

(***************************************************************************)
(* Specifications                                                          *)
(***************************************************************************)
vars == <<isWindows, buildVars, mergeVars, cwdVars, pathVars>>

BuildAtRest ==
    /\ baseEnv = <<>>
    /\ envFromConfig = NoEnv
    /\ shellLaunchConfig = [strictEnv |-> FALSE, env |-> NoEnv]
    /\ variableResolver = FALSE
    /\ language = Undefined
    /\ AtCall

MergeAtRest ==
    /\ parent = <<>>
    /\ other = NoEnv
    /\ mergeIndex = 0
    /\ mergePc = "call"
    /\ parentAtCall = <<>>
    /\ lastIteration = <<>>

CwdAtRest ==
    /\ shell = [cwd |-> Undefined, ignoreConfigurationCwd |-> FALSE]
    /\ userHome = Undefined
    /\ cwdResolver = FALSE
    /\ root = Undefined
    /\ customCwd = Undefined
    /\ cwdPc = "call"
    /\ cwdResult = <<>>
    /\ cwdSettled = <<>>
    /\ cwdLogged = FALSE

PathAtRest ==
    /\ resource = Str(<<>>)
    /\ executable = Undefined
    /\ title = <<>>
    /\ shellType = "none"
    /\ backend = FALSE
    /\ os = "none"
    /\ isWindowsFrontend = FALSE
    /\ pathPc = "call"
    /\ originalPath = <<>>
    /\ pathResult = <<>>
    /\ wslReply = <<>>

\* createTerminalEnvironment
InitBuild == BuildInputs /\ MergeAtRest /\ CwdAtRest /\ PathAtRest

RestOfBuild == UNCHANGED <<mergeVars, cwdVars, pathVars>>

NextBuild ==
    \/ BuildStrict /\ RestOfBuild
    \/ \E v \in Versions, d \in DetectLocales :
           BuildNoResolver(v, d) /\ RestOfBuild
    \/ BuildResolveConfig /\ RestOfBuild
    \/ \E p \in pending : \E out \in ResolverOutputs :
           ResolverFulfils(p, out) /\ RestOfBuild
    \/ \E p \in pending : ResolverRejects(p) /\ RestOfBuild
    \/ BuildResolveLaunch /\ RestOfBuild
    \/ \E v \in Versions, d \in DetectLocales :
           BuildFinish(v, d) /\ RestOfBuild

SpecBuild == InitBuild /\ [][NextBuild]_vars

\* mergeEnvironments
InitMerge == MergeInputs /\ BuildAtRest /\ CwdAtRest /\ PathAtRest

RestOfMerge == UNCHANGED <<buildVars, cwdVars, pathVars>>

NextMerge ==
    \/ MergeCall /\ RestOfMerge
    \/ MergeIteration /\ RestOfMerge
    \/ MergeReturn /\ RestOfMerge

SpecMerge == InitMerge /\ [][NextMerge]_vars

\* getCwd
InitCwd == CwdInputs /\ BuildAtRest /\ MergeAtRest /\ PathAtRest

RestOfCwd == UNCHANGED <<buildVars, mergeVars, pathVars>>

NextCwd ==
    \/ CwdCall /\ RestOfCwd
    \/ \E out \in ResolvedCwds : CwdResolverFulfils(out) /\ RestOfCwd
    \/ CwdResolverRejects /\ RestOfCwd

SpecCwd == InitCwd /\ [][NextCwd]_vars

\* preparePathForShell
InitPath == PathInputs /\ BuildAtRest /\ MergeAtRest /\ CwdAtRest

RestOfPath == UNCHANGED <<buildVars, mergeVars, cwdVars>>

NextPath ==
    \/ PrepareCall /\ RestOfPath
    \/ \E v \in {P_translated, <<>>} : WslFulfils(v) /\ RestOfPath
    \/ WslRejects /\ RestOfPath

SpecPath == InitPath /\ [][NextPath]_vars

====
